---------------------------- MODULE Spec2Model ----------------------------
(***************************************************************************)
(* A model of vbox: the VM lifecycle manager (vbox/manager.py), the VM     *)
(* directory (vbox/config.py) and the JSON registry store                  *)
(* (vbox/json_file.py).                                                    *)
(*                                                                         *)
(* Text is modelled as sequences of one-character strings, so that the     *)
(* regular-expression match of get_state and the '{}@{}' formatting of     *)
(* connect are computed character by character.  The output of a           *)
(* subprocess is a sequence of lines (the text split at newlines).         *)
(*                                                                         *)
(* The external tools (VBoxManage, ssh) are the environment: each call     *)
(* returns either normally or with subprocess.CalledProcessError, chosen   *)
(* nondeterministically at the call.  A tool that cannot be launched at    *)
(* all (OSError) is outside the model.                                     *)
(***************************************************************************)
EXTENDS Integers, Sequences, FiniteSets, TLC

VARIABLES
    \* ---- lifecycle manager (manager.py) ----
    op,             \* the public method being run: "none" before the call
    pc,             \* position inside the running method
    outcome,        \* "none" while running, "ok" on return, else the exception class
    errArgs,        \* constructor arguments of the raised exception
    vmName,         \* VMManager.name
    argAddress,     \* connect(address=...): None or a string
    argUser,        \* connect(user=...): None or a string
    tries,          \* connect(tries=...)
    retry_interval, \* connect(retry_interval=...), in milliseconds
    address,        \* the local `address` of connect (the ssh target)
    remaining_tries,\* the local `remaining_tries` of the running loop
    success,        \* the local `success` of connect
    state,          \* the local `state` of _wait_for_shutdown
    wasRunning,     \* what is_running() returned in stop: "unset", "yes", "no"
    printed,        \* the messages printed by start and stop
    calls,          \* how often each external call was made, and total sleep
    answer,         \* what the last showvminfo subprocess answered
    \* ---- registry (config.py, json_file.py) ----
    file,           \* the config file: <<>> when absent, else <<content>>
    dirExists,      \* whether the directory of the config file exists
    rpc,            \* per process: position inside the running Config method
    rop,            \* per process: the Config method last called, and its arguments
    rdata,          \* per process: the dictionary yielded by JsonFile.modify
    rresult,        \* per process: result of the last completed Config method
    rwrites,        \* per process: file writes made by the last called method
    \* ---- get_state as a function of the tool's output ----
    gsInput,        \* the result of the showvminfo subprocess
    gsResult        \* what get_state made of it

lifeVars == <<op, pc, outcome, errArgs, vmName, argAddress, argUser, tries,
              retry_interval, address, remaining_tries, success, state,
              wasRunning, printed, calls, answer>>
regVars == <<file, dirExists, rpc, rop, rdata, rresult, rwrites>>
gsVars == <<gsInput, gsResult>>
vars == <<lifeVars, regVars, gsVars>>

(***************************************************************************)
(* Bounds of the model.                                                    *)
(***************************************************************************)
MaxTries == 3       \* connect is called with tries in 0..MaxTries
MaxLines == 2       \* the tool's output has 1..MaxLines lines
MaxVms == 2         \* add_or_update_vm is not called on a longer vms list

(***************************************************************************)
(* Text.                                                                   *)
(***************************************************************************)
None == <<"<None>">>          \* Python's None; no string of the model equals it
Quote == "\""
S_running == <<"r","u","n","n","i","n","g">>
S_poweroff == <<"p","o","w","e","r","o","f","f">>
S_saved == <<"s","a","v","e","d">>
S_dev == <<"d","e","v">>
S_web == <<"w","e","b">>
S_addr1 == <<"1","0",".","5">>
S_addr2 == <<"1","0",".","9">>
S_user == <<"b","o","b">>

\* The literal prefix  VMState="  of the pattern.
VMStateKey == <<"V","M","S","t","a","t","e","=",Quote>>

\* Lines the tool may print.
L_running == VMStateKey \o S_running \o <<Quote>>
L_poweroff == VMStateKey \o S_poweroff \o <<Quote>>
L_saved == VMStateKey \o S_saved \o <<Quote>>
L_emptyToken == VMStateKey \o <<Quote>>
L_keyOnly == VMStateKey
L_name == <<"n","a","m","e","=",Quote>> \o S_dev \o <<Quote>>
L_lowerKey == <<"v","m","s","t","a","t","e","=",Quote>> \o S_running \o <<Quote>>
L_unquoted == <<"V","M","S","t","a","t","e","=">> \o S_running
L_indented == <<" ">> \o L_running
L_trailing == L_running \o <<" ">>
L_innerQuote == VMStateKey \o <<"a",Quote,"b",Quote>>
L_blank == <<>>

Lines == {L_running, L_poweroff, L_saved, L_emptyToken, L_keyOnly, L_name,
          L_lowerKey, L_unquoted, L_indented, L_trailing, L_innerQuote, L_blank}

Texts == UNION {[1..n -> Lines] : n \in 1..MaxLines}

(***************************************************************************)
(* VMManager.get_state.                                                    *)
(***************************************************************************)
\* A subprocess result: returned its output, or raised CalledProcessError.
Returned(text) == [raised |-> FALSE, out |-> text]
CalledProcessError == [raised |-> TRUE, out |-> <<>>]

\* Does the line match  ^VMState="(.*)"$  ?
LineMatches(line) ==
    /\ Len(line) >= Len(VMStateKey) + 1
    /\ SubSeq(line, 1, Len(VMStateKey)) = VMStateKey
    /\ line[Len(line)] = Quote

\* group(1) of the match on a line:  .*  is greedy, so everything between
\* the key and the last quote of the line.
LineToken(line) == SubSeq(line, Len(VMStateKey) + 1, Len(line) - 1)

\* SearchVMState without re.MULTILINE: only a one-line text can match.
SearchVMState_singleLine(text) ==
    IF Len(text) = 1 /\ LineMatches(text[1]) THEN 1 ELSE 0

\* re.search(..., flags=re.MULTILINE): the first line that matches, 0 if none.
SearchVMState(text) ==
    IF \E i \in 1..Len(text) : LineMatches(text[i])
    THEN CHOOSE i \in 1..Len(text) :
            /\ LineMatches(text[i])
            /\ \A j \in 1..(i - 1) : ~LineMatches(text[j])
    ELSE 0

\* A call's result: the value returned, or the exception raised with the
\* arguments of its constructor.
Value(v) == [exc |-> "none", value |-> v, args |-> <<>>]
Raise(e, a) == [exc |-> e, value |-> None, args |-> a]

get_state(name, res) ==
    IF res.raised
    THEN Raise("StateUnavailableError", <<name>>)
    ELSE IF SearchVMState(res.out) = 0
         THEN Raise("VBoxManageOutputParseError", <<name>>)
         ELSE Value(LineToken(res.out[SearchVMState(res.out)]))

\* is_running taking a state that cannot be obtained for running.
is_running_failClosed(name, res) ==
    IF get_state(name, res).exc \in {"StateUnavailableError", "VBoxManageOutputParseError"}
    THEN TRUE
    ELSE get_state(name, res).value = S_running

\* is_running: get_state() == 'running', False when get_state raises.
is_running(name, res) ==
    IF get_state(name, res).exc \in {"StateUnavailableError", "VBoxManageOutputParseError"}
    THEN FALSE
    ELSE get_state(name, res).value = S_running

(***************************************************************************)
(* The registry: config._find_vm_config, config._validate, JsonFile.read.  *)
(* A config is a dictionary: a function whose domain is a subset of        *)
(* {"vms", "current"}.  The file is <<>> when absent, else <<content>>     *)
(* with content.json telling whether json.load can parse it.               *)
(***************************************************************************)
FileOf(config) == <<[json |-> TRUE, obj |-> config]>>
NoFile == <<>>
GarbageFile == <<[json |-> FALSE, obj |-> [current |-> None]]>>

VM(name, addr) == [name |-> name, address |-> addr]

\* Index of the first entry of vms named name, 0 if there is none.
FindIndex(vms, name) ==
    IF \E i \in 1..Len(vms) : vms[i].name = name
    THEN CHOOSE i \in 1..Len(vms) :
            /\ vms[i].name = name
            /\ \A j \in 1..(i - 1) : vms[j].name # name
    ELSE 0

_find_vm_config(config, name) ==
    IF FindIndex(config.vms, name) = 0
    THEN Raise("VMNotFoundError", <<name>>)
    ELSE Value(config.vms[FindIndex(config.vms, name)])

\* The reasons of InvalidDataError.
MissingVms == <<"Missing list of VMs">>
MissingCurrent == <<"Missing current VM">>
CurrentNotInConfig == <<"Current VM does not exist in config">>
NotJson == <<"No JSON object could be decoded">>

\* _validate looking for the current entry in a non-empty list only.
_validate_emptyListPasses(config) ==
    IF "vms" \notin DOMAIN config
    THEN Raise("InvalidDataError", <<MissingVms>>)
    ELSE IF "current" \notin DOMAIN config
         THEN Raise("InvalidDataError", <<MissingCurrent>>)
         ELSE IF /\ Len(config.vms) > 0
                 /\ _find_vm_config(config, config.current).exc = "VMNotFoundError"
              THEN Raise("InvalidDataError", <<CurrentNotInConfig, config.current>>)
              ELSE Value(None)

_validate(config) ==
    IF "vms" \notin DOMAIN config
    THEN Raise("InvalidDataError", <<MissingVms>>)
    ELSE IF "current" \notin DOMAIN config
         THEN Raise("InvalidDataError", <<MissingCurrent>>)
         ELSE IF _find_vm_config(config, config.current).exc = "VMNotFoundError"
              THEN Raise("InvalidDataError", <<CurrentNotInConfig, config.current>>)
              ELSE Value(None)

\* JsonFile.read(validate): the data, or the exception raised.
read(f, validate) ==
    IF f = NoFile
    THEN Raise("JsonFileNotFoundError", <<>>)
    ELSE IF ~f[1].json
         THEN Raise("InvalidDataError", <<NotJson>>)
         ELSE IF validate /\ _validate(f[1].obj).exc # "none"
              THEN _validate(f[1].obj)
              ELSE Value(f[1].obj)

\* Config.get_vm and Config.get_current_vm on the file f.
get_vm(f, name) ==
    IF read(f, TRUE).exc # "none"
    THEN read(f, TRUE)
    ELSE _find_vm_config(read(f, TRUE).value, name)

\* get_current_vm reading without validation (read(validate=False)): a
\* missing key is a KeyError, a current naming no entry a VMNotFoundError.
get_current_vm_unvalidated(f) ==
    IF read(f, FALSE).exc # "none"
    THEN read(f, FALSE)
    ELSE IF DOMAIN read(f, FALSE).value # {"vms", "current"}
         THEN Raise("KeyError", <<>>)
         ELSE _find_vm_config(read(f, FALSE).value, read(f, FALSE).value.current)

get_current_vm(f) ==
    IF read(f, TRUE).exc # "none"
    THEN read(f, TRUE)
    ELSE _find_vm_config(read(f, TRUE).value, read(f, TRUE).value.current)

(***************************************************************************)
(* The lifecycle manager: one VMManager, one public method call.           *)
(***************************************************************************)
WaitTries == 20             \* _wait_for_shutdown(tries=20)
WaitRetryIntervalMs == 500  \* _wait_for_shutdown(retry_interval=0.5)

\* What the showvminfo subprocess may answer in a lifecycle run.
QueryResults ==
    { CalledProcessError,
      Returned(<<L_name, L_running>>),
      Returned(<<L_poweroff, L_name>>),
      Returned(<<L_name, L_saved, L_name>>),
      Returned(<<L_name>>) }

\* The arguments connect is called with.
AddressArgs == {None, S_addr2}
UserArgs == {None, S_user}
TriesArgs == 0..MaxTries
RetryIntervalArgs == {0, 5000}

\* The config files a lifecycle run may find.
LifeFiles ==
    { NoFile,
      FileOf([vms |-> <<VM(S_dev, S_addr1)>>, current |-> S_dev]),
      FileOf([vms |-> <<VM(S_web, S_addr1)>>, current |-> S_web]),
      FileOf([vms |-> <<VM(S_dev, S_addr1)>>, current |-> S_web]) }

NoCalls ==
    [get_state |-> 0, wait_get_state |-> 0, startvm |-> 0, acpipowerbutton |-> 0,
     startvm_failed |-> 0, acpipowerbutton_failed |-> 0,
     ssh |-> 0, ssh_failed |-> 0, sleep |-> 0, wait_sleep |-> 0, slept_ms |-> 0,
     get_vm |-> 0, get_current_vm |-> 0]

LifeInit ==
    /\ op = "none"
    /\ pc = "new"
    /\ outcome = "none"
    /\ errArgs = <<>>
    /\ vmName = None
    /\ argAddress = None
    /\ argUser = None
    /\ tries = 0
    /\ retry_interval = 0
    /\ address = None
    /\ remaining_tries = 0
    /\ success = FALSE
    /\ state = None
    /\ wasRunning = "unset"
    /\ printed = {}
    /\ calls = NoCalls
    /\ answer = CalledProcessError

\* The processes that call Config methods.
Procs == {1, 2}

EmptyConfig == [vms |-> <<>>, current |-> None]
NoOp == [method |-> "none", name |-> None, address |-> None, pre |-> NoFile]
Running == [exc |-> "running", value |-> None, args |-> <<>>]

\* No Config method has been called yet.
RegIdle ==
    /\ rpc = [p \in Procs |-> "idle"]
    /\ rop = [p \in Procs |-> NoOp]
    /\ rdata = [p \in Procs |-> EmptyConfig]
    /\ rresult = [p \in Procs |-> Value(None)]
    /\ rwrites = [p \in Procs |-> 0]
    /\ file # NoFile => dirExists

GsIdle ==
    /\ gsInput = CalledProcessError
    /\ gsResult = <<>>

\* The running method returns.
Return ==
    /\ pc' = "done"
    /\ outcome' = "ok"
    /\ errArgs' = <<>>

\* The running method raises exception e, constructed with arguments a.
Throw(e, a) ==
    /\ pc' = "done"
    /\ outcome' = e
    /\ errArgs' = a

\* VMManager(name): with name None the current VM of the config is used.
NewManager(name) ==
    /\ pc = "new"
    /\ IF name # None
       THEN /\ vmName' = name
            /\ pc' = "idle"
            /\ UNCHANGED <<op, outcome, errArgs, calls>>
       ELSE /\ calls' = [calls EXCEPT !.get_current_vm = @ + 1]
            /\ IF get_current_vm(file).exc # "none"
               THEN /\ op' = "__init__"
                    /\ Throw(get_current_vm(file).exc, get_current_vm(file).args)
                    /\ UNCHANGED vmName
               ELSE /\ vmName' = get_current_vm(file).value.name
                    /\ pc' = "idle"
                    /\ UNCHANGED <<op, outcome, errArgs>>
    /\ UNCHANGED <<argAddress, argUser, tries, retry_interval, address,
                   remaining_tries, success, state, wasRunning, printed>>
    /\ UNCHANGED <<answer, regVars, gsVars>>

\* A public method is called; its first external call is the next step.
CallStart ==
    /\ pc = "idle"
    /\ op' = "start"
    /\ pc' = "start_check"
    /\ UNCHANGED <<outcome, errArgs, vmName, argAddress, argUser, tries,
                   retry_interval, address, remaining_tries, success, state,
                   wasRunning, printed, calls>>
    /\ UNCHANGED <<answer, regVars, gsVars>>

CallStop ==
    /\ pc = "idle"
    /\ op' = "stop"
    /\ pc' = "stop_check"
    /\ UNCHANGED <<outcome, errArgs, vmName, argAddress, argUser, tries,
                   retry_interval, address, remaining_tries, success, state,
                   wasRunning, printed, calls>>
    /\ UNCHANGED <<answer, regVars, gsVars>>

CallReboot ==
    /\ pc = "idle"
    /\ op' = "reboot"
    /\ pc' = "stop_check"
    /\ UNCHANGED <<outcome, errArgs, vmName, argAddress, argUser, tries,
                   retry_interval, address, remaining_tries, success, state,
                   wasRunning, printed, calls>>
    /\ UNCHANGED <<answer, regVars, gsVars>>

CallConnect(a, u, t, r) ==
    /\ pc = "idle"
    /\ op' = "connect"
    /\ pc' = "connect_begin"
    /\ argAddress' = a
    /\ argUser' = u
    /\ tries' = t
    /\ retry_interval' = r
    /\ UNCHANGED <<outcome, errArgs, vmName, address, remaining_tries, success,
                   state, wasRunning, printed, calls>>
    /\ UNCHANGED <<answer, regVars, gsVars>>

CallStartAndConnect(a, u, t, r) ==
    /\ pc = "idle"
    /\ op' = "start_and_connect"
    /\ pc' = "start_check"
    /\ argAddress' = a
    /\ argUser' = u
    /\ tries' = t
    /\ retry_interval' = r
    /\ UNCHANGED <<outcome, errArgs, vmName, address, remaining_tries, success,
                   state, wasRunning, printed, calls>>
    /\ UNCHANGED <<answer, regVars, gsVars>>

\* start has returned: start and reboot are over, start_and_connect goes on
\* with connect.
AfterStart ==
    IF op = "start_and_connect"
    THEN /\ pc' = "connect_begin"
         /\ UNCHANGED <<outcome, errArgs>>
    ELSE Return

\* start: the is_running() check.  res is what showvminfo answers.
StartCheck(res) ==
    /\ pc = "start_check"
    /\ calls' = [calls EXCEPT !.get_state = @ + 1]
    /\ IF is_running(vmName, res)
       THEN /\ printed' = printed \cup {"already running"}
            /\ AfterStart
       ELSE /\ printed' = printed
            /\ pc' = "start_poweron"
            /\ UNCHANGED <<outcome, errArgs>>
    /\ UNCHANGED <<op, vmName, argAddress, argUser, tries, retry_interval,
                   address, remaining_tries, success, state, wasRunning>>
    /\ answer' = res
    /\ UNCHANGED <<regVars, gsVars>>

\* StartPowerOn swallowing the CalledProcessError of startvm.
StartPowerOn_swallows(failed) ==
    /\ pc = "start_poweron"
    /\ calls' = [calls EXCEPT !.startvm = @ + 1,
                              !.startvm_failed = IF failed THEN @ + 1 ELSE @]
    /\ AfterStart
    /\ UNCHANGED <<op, vmName, argAddress, argUser, tries, retry_interval,
                   address, remaining_tries, success, state, wasRunning, printed>>
    /\ UNCHANGED <<answer, regVars, gsVars>>

\* start: check_call(['VBoxManage', 'startvm', ...]); failed tells whether
\* it raises CalledProcessError, which start does not catch.
StartPowerOn(failed) ==
    /\ pc = "start_poweron"
    /\ calls' = [calls EXCEPT !.startvm = @ + 1,
                              !.startvm_failed = IF failed THEN @ + 1 ELSE @]
    /\ IF failed
       THEN Throw("CalledProcessError", <<>>)
       ELSE AfterStart
    /\ UNCHANGED <<op, vmName, argAddress, argUser, tries, retry_interval,
                   address, remaining_tries, success, state, wasRunning, printed>>
    /\ UNCHANGED <<answer, regVars, gsVars>>

\* ConnectLoop reporting the remaining tries instead of the tries made.
ConnectLoop_reportsRemaining(succ, rem, addr) ==
    IF (~succ) /\ rem > 0
    THEN /\ pc' = "connect_ssh"
         /\ UNCHANGED <<outcome, errArgs>>
    ELSE IF ~succ
         THEN Throw("ConnectionFailure", <<addr, rem>>)
         ELSE Return

\* connect:  while (not success) and (remaining_tries > 0)  and, when the
\* loop is left,  if not success: raise ConnectionFailure(address, tries).
ConnectLoop(succ, rem, addr) ==
    IF (~succ) /\ rem > 0
    THEN /\ pc' = "connect_ssh"
         /\ UNCHANGED <<outcome, errArgs>>
    ELSE IF ~succ
         THEN Throw("ConnectionFailure", <<addr, tries>>)
         ELSE Return

\* '{}@{}'.format(user, address)
FormatTarget(user, addr) == user \o <<"@">> \o addr

\* connect up to its first ssh call: the address is looked up in the config
\* unless given, and prefixed with the user if given.
ConnectBegin ==
    /\ pc = "connect_begin"
    /\ IF argAddress = None /\ get_vm(file, vmName).exc # "none"
       THEN /\ calls' = [calls EXCEPT !.get_vm = @ + 1]
            /\ Throw(get_vm(file, vmName).exc, get_vm(file, vmName).args)
            /\ UNCHANGED <<address, remaining_tries, success>>
       ELSE /\ calls' = [calls EXCEPT !.get_vm = IF argAddress = None THEN @ + 1 ELSE @]
            /\ address' =
                 LET a == IF argAddress # None
                          THEN argAddress
                          ELSE get_vm(file, vmName).value.address
                 IN  IF argUser # None THEN FormatTarget(argUser, a) ELSE a
            /\ success' = FALSE
            /\ remaining_tries' = tries
            /\ ConnectLoop(FALSE, tries, address')
    /\ UNCHANGED <<op, vmName, argAddress, argUser, tries, retry_interval,
                   state, wasRunning, printed>>
    /\ UNCHANGED <<answer, regVars, gsVars>>

\* connect: check_call(['ssh', address]).  On CalledProcessError the
\* remaining tries are decremented and the sleep follows; otherwise success.
ConnectSsh(failed) ==
    /\ pc = "connect_ssh"
    /\ IF failed
       THEN /\ calls' = [calls EXCEPT !.ssh = @ + 1, !.ssh_failed = @ + 1]
            /\ remaining_tries' = remaining_tries - 1
            /\ pc' = "connect_sleep"
            /\ UNCHANGED <<success, outcome, errArgs>>
       ELSE /\ calls' = [calls EXCEPT !.ssh = @ + 1]
            /\ success' = TRUE
            /\ ConnectLoop(TRUE, remaining_tries, address)
            /\ UNCHANGED remaining_tries
    /\ UNCHANGED <<op, vmName, argAddress, argUser, tries, retry_interval,
                   address, state, wasRunning, printed>>
    /\ UNCHANGED <<answer, regVars, gsVars>>

\* ConnectSleep with a linear back-off: the n-th sleep lasts n intervals.
ConnectSleep_backoff ==
    /\ pc = "connect_sleep"
    /\ calls' = [calls EXCEPT !.sleep = @ + 1,
                              !.slept_ms = @ + retry_interval * calls.ssh_failed]
    /\ ConnectLoop(success, remaining_tries, address)
    /\ UNCHANGED <<op, vmName, argAddress, argUser, tries, retry_interval,
                   address, remaining_tries, success, state, wasRunning, printed>>
    /\ UNCHANGED <<answer, regVars, gsVars>>

\* connect: time.sleep(retry_interval), then the loop condition again.
ConnectSleep ==
    /\ pc = "connect_sleep"
    /\ calls' = [calls EXCEPT !.sleep = @ + 1, !.slept_ms = @ + retry_interval]
    /\ ConnectLoop(success, remaining_tries, address)
    /\ UNCHANGED <<op, vmName, argAddress, argUser, tries, retry_interval,
                   address, remaining_tries, success, state, wasRunning, printed>>
    /\ UNCHANGED <<answer, regVars, gsVars>>

\* stop has returned: stop is over, reboot goes on with start.
AfterStop ==
    IF op = "reboot"
    THEN /\ pc' = "start_check"
         /\ UNCHANGED <<outcome, errArgs>>
    ELSE Return

\* stop: the is_running() check.
StopCheck(res) ==
    /\ pc = "stop_check"
    /\ calls' = [calls EXCEPT !.get_state = @ + 1]
    /\ IF is_running(vmName, res)
       THEN /\ wasRunning' = "yes"
            /\ printed' = printed \cup {"shutting down"}
            /\ pc' = "stop_request"
       ELSE /\ wasRunning' = "no"
            /\ printed' = printed \cup {"not running"}
            /\ pc' = "wait_first"
    /\ UNCHANGED <<op, outcome, errArgs, vmName, argAddress, argUser, tries,
                   retry_interval, address, remaining_tries, success, state>>
    /\ answer' = res
    /\ UNCHANGED <<regVars, gsVars>>

\* stop: check_call(['VBoxManage', 'controlvm', ..., 'acpipowerbutton']).
StopRequest(failed) ==
    /\ pc = "stop_request"
    /\ calls' = [calls EXCEPT !.acpipowerbutton = @ + 1,
                              !.acpipowerbutton_failed = IF failed THEN @ + 1 ELSE @]
    /\ IF failed
       THEN Throw("CalledProcessError", <<>>)
       ELSE /\ pc' = "wait_first"
            /\ UNCHANGED <<outcome, errArgs>>
    /\ UNCHANGED <<op, vmName, argAddress, argUser, tries, retry_interval,
                   address, remaining_tries, success, state, wasRunning, printed>>
    /\ UNCHANGED <<answer, regVars, gsVars>>

\* PolledState taking a state that cannot be obtained for poweroff.
PolledState_unavailableIsOff(name, res) ==
    IF get_state(name, res).exc \in {"StateUnavailableError", "VBoxManageOutputParseError"}
    THEN S_poweroff
    ELSE get_state(name, res).value

\* The state _wait_for_shutdown keeps of a poll: None when get_state raises.
PolledState(name, res) ==
    IF get_state(name, res).exc \in {"StateUnavailableError", "VBoxManageOutputParseError"}
    THEN None
    ELSE get_state(name, res).value

\* WaitLoop that polls until the attempts are used up, whatever the state.
WaitLoop_usesAllTries(st, rem) ==
    IF rem > 0
    THEN /\ pc' = "wait_sleep"
         /\ printed' = printed
         /\ UNCHANGED <<outcome, errArgs>>
    ELSE IF st # S_poweroff
         THEN /\ Throw("ShutdownFailure", <<vmName>>)
              /\ printed' = printed
         ELSE /\ printed' = printed \cup {"shut down"}
              /\ AfterStop

\* WaitLoop with reboot going on to start when the wait is used up, the
\* ShutdownFailure being raised for stop alone.
WaitLoop_rebootStartsAnyway(st, rem) ==
    IF st # S_poweroff /\ rem > 0
    THEN /\ pc' = "wait_sleep"
         /\ printed' = printed
         /\ UNCHANGED <<outcome, errArgs>>
    ELSE IF st # S_poweroff /\ op # "reboot"
         THEN /\ Throw("ShutdownFailure", <<vmName>>)
              /\ printed' = printed
         ELSE /\ printed' = printed \cup {"shut down"}
              /\ AfterStop

\* _wait_for_shutdown:  while (state != 'poweroff') and (remaining_tries > 0)
\* and, when the loop is left, the final test of state.
WaitLoop(st, rem) ==
    IF st # S_poweroff /\ rem > 0
    THEN /\ pc' = "wait_sleep"
         /\ printed' = printed
         /\ UNCHANGED <<outcome, errArgs>>
    ELSE IF st # S_poweroff
         THEN /\ Throw("ShutdownFailure", <<vmName>>)
              /\ printed' = printed
         ELSE /\ printed' = printed \cup {"shut down"}
              /\ AfterStop

\* WaitFirst counting the get_state before the loop as one of the tries.
WaitFirst_countsFirstPoll(res) ==
    /\ pc = "wait_first"
    /\ calls' = [calls EXCEPT !.get_state = @ + 1, !.wait_get_state = @ + 1]
    /\ state' = PolledState(vmName, res)
    /\ remaining_tries' = WaitTries - 1
    /\ WaitLoop(state', WaitTries - 1)
    /\ UNCHANGED <<op, vmName, argAddress, argUser, tries, retry_interval,
                   address, success, wasRunning>>
    /\ answer' = res
    /\ UNCHANGED <<regVars, gsVars>>

\* _wait_for_shutdown: the get_state before the loop.
WaitFirst(res) ==
    /\ pc = "wait_first"
    /\ calls' = [calls EXCEPT !.get_state = @ + 1, !.wait_get_state = @ + 1]
    /\ state' = PolledState(vmName, res)
    /\ remaining_tries' = WaitTries
    /\ WaitLoop(state', WaitTries)
    /\ UNCHANGED <<op, vmName, argAddress, argUser, tries, retry_interval,
                   address, success, wasRunning>>
    /\ answer' = res
    /\ UNCHANGED <<regVars, gsVars>>

\* _wait_for_shutdown: time.sleep(retry_interval) in the loop.
WaitSleep ==
    /\ pc = "wait_sleep"
    /\ calls' = [calls EXCEPT !.sleep = @ + 1, !.wait_sleep = @ + 1,
                              !.slept_ms = @ + WaitRetryIntervalMs]
    /\ pc' = "wait_poll"
    /\ UNCHANGED <<op, outcome, errArgs, vmName, argAddress, argUser, tries,
                   retry_interval, address, remaining_tries, success, state,
                   wasRunning, printed>>
    /\ UNCHANGED <<answer, regVars, gsVars>>

\* _wait_for_shutdown: the get_state in the loop, the decrement, and the
\* loop condition again.
WaitPoll(res) ==
    /\ pc = "wait_poll"
    /\ calls' = [calls EXCEPT !.get_state = @ + 1, !.wait_get_state = @ + 1]
    /\ state' = PolledState(vmName, res)
    /\ remaining_tries' = remaining_tries - 1
    /\ WaitLoop(state', remaining_tries')
    /\ UNCHANGED <<op, vmName, argAddress, argUser, tries, retry_interval,
                   address, success, wasRunning>>
    /\ answer' = res
    /\ UNCHANGED <<regVars, gsVars>>

Init ==
    /\ LifeInit
    /\ file \in LifeFiles
    /\ dirExists = TRUE
    /\ RegIdle
    /\ GsIdle

Next ==
    \/ \E n \in {None, S_dev} : NewManager(n)
    \/ CallStart
    \/ CallStop
    \/ CallReboot
    \/ \E a \in AddressArgs, u \in UserArgs, t \in TriesArgs, r \in RetryIntervalArgs :
          CallConnect(a, u, t, r)
    \/ \E a \in AddressArgs, u \in UserArgs, t \in TriesArgs, r \in RetryIntervalArgs :
          CallStartAndConnect(a, u, t, r)
    \/ \E res \in QueryResults : StartCheck(res)
    \/ \E failed \in BOOLEAN : StartPowerOn(failed)
    \/ ConnectBegin
    \/ \E failed \in BOOLEAN : ConnectSsh(failed)
    \/ ConnectSleep
    \/ \E res \in QueryResults : StopCheck(res)
    \/ \E failed \in BOOLEAN : StopRequest(failed)
    \/ \E res \in QueryResults : WaitFirst(res)
    \/ WaitSleep
    \/ \E res \in QueryResults : WaitPoll(res)

Spec == Init /\ [][Next]_vars

(***************************************************************************)
(* Properties of the lifecycle manager.                                    *)
(***************************************************************************)
ConnectOps == {"connect", "start_and_connect"}

\* The target the caller of connect expects: the address given, or the one
\* the config holds for the VM, prefixed with user@ when a user is given.
ExpectedTarget ==
    LET a == IF argAddress # None
             THEN argAddress
             ELSE (CHOOSE v \in {file[1].obj.vms[i] : i \in 1..Len(file[1].obj.vms)} :
                      v.name = vmName).address
    IN  IF argUser # None THEN argUser \o <<"@">> \o a ELSE a

\* C1: connect, success path.  When sshConnect fails k < tries times and then
\* succeeds, connect makes exactly k+1 ssh calls, returns normally, and has
\* slept retry_interval once per failed attempt (k sleeps, k * retry_interval
\* in total); it makes no ssh call after the first success, and it does not
\* give up with ConnectionFailure while fewer than tries attempts have failed.
C1_ConnectSuccess ==
    op \in ConnectOps =>
        /\ success => (pc = "done" /\ outcome = "ok")
        /\ calls.ssh = calls.ssh_failed + (IF success THEN 1 ELSE 0)
        /\ (pc = "done" /\ outcome = "ok") =>
              /\ success
              /\ tries >= 1
              /\ calls.ssh_failed < tries
              /\ calls.ssh = calls.ssh_failed + 1
              /\ calls.sleep = calls.ssh_failed
              /\ calls.slept_ms = calls.ssh_failed * retry_interval
        /\ (pc = "done" /\ outcome = "ConnectionFailure") => calls.ssh_failed >= tries

\* Two failed attempts, then success, with a non-zero interval.
C1_Witness ==
    /\ op = "connect"
    /\ pc = "done"
    /\ outcome = "ok"
    /\ tries = 3
    /\ retry_interval = 5000
    /\ calls.ssh = 3
    /\ calls.ssh_failed = 2
    /\ calls.slept_ms = 10000

\* C2: connect, exhaustion path.  When every sshConnect fails, connect with
\* tries = n >= 0 makes exactly n ssh calls and then raises
\* ConnectionFailure(target, n), target being the address, or user@address
\* when a user is given; another attempt is due only while fewer than n have
\* failed.
C2_ConnectExhaustion ==
    op \in ConnectOps =>
        /\ (pc = "done" /\ outcome = "ConnectionFailure") =>
              /\ ~success
              /\ calls.ssh = tries
              /\ calls.ssh_failed = tries
              /\ errArgs = <<ExpectedTarget, tries>>
        /\ pc = "connect_ssh" => (~success /\ calls.ssh_failed < tries)
        /\ pc = "connect_sleep" => (~success /\ calls.ssh_failed <= tries)
        /\ (pc = "done" /\ calls.ssh = tries /\ calls.ssh_failed = tries
              /\ outcome \notin {"CalledProcessError", "JsonFileNotFoundError",
                                 "InvalidDataError", "VMNotFoundError"})
             => outcome = "ConnectionFailure"

\* Two tries, both failed, with a user and the address taken from the config.
C2_Witness ==
    /\ op = "connect"
    /\ pc = "done"
    /\ outcome = "ConnectionFailure"
    /\ tries = 2
    /\ calls.ssh = 2
    /\ argUser = S_user
    /\ argAddress = None
    /\ errArgs = <<S_user \o <<"@">> \o S_addr1, 2>>

\* The showvminfo answers whose VMState line says running, and poweroff.
RunningAnswers == {Returned(<<L_name, L_running>>)}
PoweroffAnswers == {Returned(<<L_poweroff, L_name>>)}

\* In stop: the shutdown request has been issued once if is_running() was
\* true and never otherwise, and a poll of the wait loop that returned
\* poweroff has ended stop normally, after one sleep between two polls.
C3_StopState ==
    op = "stop" =>
        /\ wasRunning = "unset" => (pc = "stop_check" /\ calls.acpipowerbutton = 0)
        /\ wasRunning = "no" => calls.acpipowerbutton = 0
        /\ wasRunning = "yes" =>
              calls.acpipowerbutton = (IF pc = "stop_request" THEN 0 ELSE 1)
        /\ (calls.wait_get_state > 0 /\ answer \in PoweroffAnswers) =>
              /\ pc = "done"
              /\ outcome = "ok"
              /\ calls.wait_get_state = 1 + (WaitTries - remaining_tries)
              /\ calls.wait_sleep = WaitTries - remaining_tries

\* In stop: no step after a poll of the wait loop that returned poweroff
\* makes an external call or changes the outcome.
C3_StopStep ==
    (op = "stop" /\ calls.wait_get_state > 0 /\ answer \in PoweroffAnswers)
        => (calls' = calls /\ outcome' = outcome)

\* C3: stop issues the shutdown request exactly once if its is_running check
\* saw running and never otherwise; the wait loop ends at the first poll that
\* returns poweroff: stop then returns normally at once, without using the
\* remaining attempts, and no further get_state or sleep follows.
C3_StopEndsAtPoweroff == [](C3_StopState) /\ [][C3_StopStep]_vars

\* The VM was running, and the second poll of the wait loop saw poweroff.
C3_Witness ==
    /\ op = "stop"
    /\ pc = "done"
    /\ outcome = "ok"
    /\ wasRunning = "yes"
    /\ calls.acpipowerbutton = 1
    /\ calls.wait_get_state = 2
    /\ calls.wait_sleep = 1
    /\ remaining_tries = WaitTries - 1

\* C4: stop, exhaustion path.  If no poll of the wait loop returns poweroff
\* before the attempts are used up, stop raises ShutdownFailure(name).  A poll
\* that cannot obtain the state counts as not yet poweroff: its exception
\* never reaches the caller, and stop returns normally only if its last poll
\* returned poweroff.
C4_StopExhaustion ==
    op = "stop" =>
        /\ outcome \notin {"StateUnavailableError", "VBoxManageOutputParseError"}
        /\ (pc = "done" /\ outcome = "ok") => answer \in PoweroffAnswers
        /\ (pc = "done" /\ outcome = "ShutdownFailure") =>
              /\ answer \notin PoweroffAnswers
              /\ remaining_tries = 0
              /\ calls.wait_get_state = WaitTries + 1
              /\ errArgs = <<vmName>>
        /\ (calls.wait_get_state = WaitTries + 1 /\ answer \notin PoweroffAnswers) =>
              (pc = "done" /\ outcome = "ShutdownFailure")
        /\ (calls.wait_get_state > 0 /\ calls.wait_get_state < WaitTries + 1
              /\ answer \notin PoweroffAnswers) => pc \in {"wait_sleep", "wait_poll"}

\* All polls used up, the last of them failing to obtain the state.
C4_Witness ==
    /\ op = "stop"
    /\ pc = "done"
    /\ outcome = "ShutdownFailure"
    /\ answer = CalledProcessError
    /\ calls.wait_get_state = WaitTries + 1
    /\ errArgs = <<S_dev>>

\* C5: stop on a VM that is not running is not an error: whenever the
\* is_running check is false, stop issues no shutdown request and ends
\* normally, not with a failure.
C5_StopNotRunningIsNoError ==
    (op = "stop" /\ wasRunning = "no" /\ pc = "done") =>
        (calls.acpipowerbutton = 0 /\ outcome = "ok")

\* C6: start makes exactly one state query; if it returned running, start
\* issues no powerOn and does not fail; otherwise, also when the query failed,
\* it issues powerOn exactly once.  No state query follows the powerOn.
C6_Start ==
    op = "start" =>
        /\ pc = "start_check" => (calls.get_state = 0 /\ calls.startvm = 0)
        /\ pc = "start_poweron" =>
              (calls.get_state = 1 /\ calls.startvm = 0 /\ answer \notin RunningAnswers)
        /\ pc = "done" =>
              /\ calls.get_state = 1
              /\ IF answer \in RunningAnswers
                 THEN calls.startvm = 0 /\ outcome = "ok"
                 ELSE /\ calls.startvm = 1
                      /\ outcome = (IF calls.startvm_failed = 1
                                    THEN "CalledProcessError" ELSE "ok")

\* The state query failed, and start powered the VM on.
C6_Witness ==
    /\ op = "start"
    /\ pc = "done"
    /\ outcome = "ok"
    /\ answer = CalledProcessError
    /\ calls.get_state = 1
    /\ calls.startvm = 1

\* C7: start_and_connect runs start and then connect with the parameters
\* given.  If the powerOn of start fails, no address lookup and no ssh call is
\* made; if start succeeds and connect fails, the caller gets connect's own
\* ConnectionFailure(target, tries).
C7_StartAndConnect ==
    op = "start_and_connect" =>
        /\ calls.startvm_failed > 0 =>
              /\ pc = "done"
              /\ outcome = "CalledProcessError"
              /\ calls.ssh = 0
              /\ calls.get_vm = 0
        /\ (calls.ssh > 0 \/ calls.get_vm > 0 \/ pc \in {"connect_begin", "connect_ssh", "connect_sleep"}) =>
              /\ calls.get_state = 1
              /\ calls.startvm = (IF answer \in RunningAnswers THEN 0 ELSE 1)
              /\ calls.startvm_failed = 0
        /\ (pc = "done" /\ outcome = "ConnectionFailure") =>
              /\ errArgs = <<ExpectedTarget, tries>>
              /\ calls.ssh = tries
              /\ calls.slept_ms = tries * retry_interval

\* start powered the VM on, then both connection attempts failed.
C7_Witness ==
    /\ op = "start_and_connect"
    /\ pc = "done"
    /\ outcome = "ConnectionFailure"
    /\ calls.startvm = 1
    /\ tries = 2
    /\ calls.ssh = 2
    /\ errArgs = <<S_addr2, 2>>

(***************************************************************************)
(* get_state as a function of what the showvminfo subprocess answers.      *)
(***************************************************************************)
GetStateInputs == {CalledProcessError} \cup {Returned(t) : t \in Texts}

\* One call of get_state on the VM named dev.
GetStateCall ==
    /\ gsResult = <<>>
    /\ gsResult' = <<get_state(S_dev, gsInput)>>
    /\ UNCHANGED <<gsInput, lifeVars, regVars>>

InitGetState ==
    /\ LifeInit
    /\ file = NoFile
    /\ dirExists = TRUE
    /\ RegIdle
    /\ gsInput \in GetStateInputs
    /\ gsResult = <<>>

NextGetState == GetStateCall

SpecGetState == InitGetState /\ [][NextGetState]_vars

\* A line of the exact form  VMState="<token>" : the key, any token, a quote.
IsStateLine(line) ==
    \E n \in 0..(Len(line) - Len(VMStateKey) - 1) :
        line = VMStateKey \o SubSeq(line, Len(VMStateKey) + 1, Len(VMStateKey) + n) \o <<Quote>>

\* The tokens of the lines of that form, in the order of the text.
StateLinesOf(text) == SelectSeq(text, IsStateLine)

\* C8: get_state raises StateUnavailableError if the subprocess fails; raises
\* VBoxManageOutputParseError, returning no state, if the output has no line
\* of the exact form VMState="<token>"; otherwise returns the token of the
\* (first) VMState line, whatever lines precede or follow it.
C8_GetState ==
    gsResult # <<>> =>
        LET r == gsResult[1] IN
        IF gsInput.raised
        THEN r.exc = "StateUnavailableError" /\ r.value = None
        ELSE IF StateLinesOf(gsInput.out) = <<>>
             THEN r.exc = "VBoxManageOutputParseError" /\ r.value = None
             ELSE /\ r.exc = "none"
                  /\ VMStateKey \o r.value \o <<Quote>> = Head(StateLinesOf(gsInput.out))

\* The VMState line is the second of two lines.
C8_Witness ==
    /\ gsInput = Returned(<<L_name, L_poweroff>>)
    /\ gsResult = <<Value(S_poweroff)>>

(***************************************************************************)
(* The registry: the methods of Config, each run by a process.  A method   *)
(* that goes through JsonFile.modify takes two steps, the read of the file *)
(* and, after the body of the with block, its write; the other methods     *)
(* take one step.                                                          *)
(***************************************************************************)
RegNames == {S_dev, S_web}
RegAddrs == {S_addr1, S_addr2}

\* The config files a process may find: none, one that is not JSON, valid
\* ones, and ones edited by hand into something the validator rejects.
RegFiles ==
    { NoFile,
      GarbageFile,
      FileOf([vms |-> <<VM(S_dev, S_addr1)>>, current |-> S_dev]),
      FileOf([vms |-> <<VM(S_dev, S_addr1), VM(S_web, S_addr2)>>, current |-> S_web]),
      FileOf([vms |-> <<VM(S_dev, S_addr1)>>, current |-> S_web]),
      FileOf([vms |-> <<>>, current |-> S_dev]),
      FileOf([vms |-> <<VM(S_dev, S_addr1)>>]),
      FileOf([current |-> S_dev]) }

\* The length of the vms list of the file, 0 if it has none.
VmsLen(f) ==
    IF f # NoFile /\ f[1].json /\ "vms" \in DOMAIN f[1].obj
    THEN Len(f[1].obj.vms)
    ELSE 0

\* add_or_update_vm is called with a name the list has, or on a list of
\* less than MaxVms entries.
CanAdd(f, n) ==
    IF VmsLen(f) < MaxVms THEN TRUE ELSE FindIndex(f[1].obj.vms, n) # 0

\* AddOrUpdateBody making the entry it added or updated the current one.
AddOrUpdateBody_selects(config, n, a) ==
    IF FindIndex(config.vms, n) = 0
    THEN [config EXCEPT !.vms = Append(@, VM(n, a)), !.current = n]
    ELSE [config EXCEPT !.vms[FindIndex(config.vms, n)].address = a, !.current = n]

\* AddOrUpdateBody appending the entry without looking for the name.
AddOrUpdateBody_alwaysAppends(config, n, a) ==
    [config EXCEPT !.vms = Append(@, VM(n, a))]

\* The body of the with block of add_or_update_vm: the address of the first
\* entry named n is set, a new entry being appended if there is none.
AddOrUpdateBody(config, n, a) ==
    IF FindIndex(config.vms, n) = 0
    THEN [config EXCEPT !.vms = Append(@, VM(n, a))]
    ELSE [config EXCEPT !.vms[FindIndex(config.vms, n)].address = a]

\* RemoveBody with the test of the filter inverted: the named entries stay.
RemoveBody_keepsNamed(config, n) ==
    [config EXCEPT !.vms = SelectSeq(@, LAMBDA v : v.name = n)]

\* The body of the with block of remove_vm.
RemoveBody(config, n) ==
    [config EXCEPT !.vms = SelectSeq(@, LAMBDA v : v.name # n)]

\* The body of the with block of set_current_vm.
SelectBody(config, n) == [config EXCEPT !.current = n]

\* A method is called by p: what it was called with and on which file.
Called(p, m, n, a) ==
    /\ rpc[p] = "idle"
    /\ rop' = [rop EXCEPT ![p] = [method |-> m, name |-> n, address |-> a, pre |-> file]]

\* JsonFile.modify up to its yield: read(validate=True).  When the read
\* raises, so does the method; otherwise the with block is entered.
ModifyRead(p, m, n, a, body) ==
    /\ Called(p, m, n, a)
    /\ rwrites' = [rwrites EXCEPT ![p] = 0]
    /\ IF read(file, TRUE).exc # "none"
       THEN /\ rresult' = [rresult EXCEPT ![p] = read(file, TRUE)]
            /\ UNCHANGED <<rpc, rdata>>
       ELSE /\ rresult' = [rresult EXCEPT ![p] = Running]
            /\ rdata' = [rdata EXCEPT ![p] = read(file, TRUE).value]
            /\ rpc' = [rpc EXCEPT ![p] = body]
    /\ UNCHANGED <<file, dirExists>>

\* JsonWrite without the validation (write called with validate=False).
JsonWrite_noValidate(p, data, sofar) ==
    /\ dirExists' = TRUE
    /\ file' = FileOf(data)
    /\ rwrites' = [rwrites EXCEPT ![p] = sofar + 1]
    /\ rresult' = [rresult EXCEPT ![p] = Value(None)]

\* JsonWrite opening the file for writing before it validates the data: a
\* rejected write leaves an empty file behind.
JsonWrite_opensFirst(p, data, sofar) ==
    IF _validate(data).exc # "none"
    THEN /\ rresult' = [rresult EXCEPT ![p] = _validate(data)]
         /\ rwrites' = [rwrites EXCEPT ![p] = sofar]
         /\ dirExists' = TRUE
         /\ file' = GarbageFile
    ELSE /\ dirExists' = TRUE
         /\ file' = FileOf(data)
         /\ rwrites' = [rwrites EXCEPT ![p] = sofar + 1]
         /\ rresult' = [rresult EXCEPT ![p] = Value(None)]

\* JsonFile.write(data, validate=True) by p, the last call of its method:
\* the data is validated, then the directory is made and the file replaced.
\* sofar is the number of writes the method has made before.
JsonWrite(p, data, sofar) ==
    IF _validate(data).exc # "none"
    THEN /\ rresult' = [rresult EXCEPT ![p] = _validate(data)]
         /\ rwrites' = [rwrites EXCEPT ![p] = sofar]
         /\ UNCHANGED <<file, dirExists>>
    ELSE /\ dirExists' = TRUE
         /\ file' = FileOf(data)
         /\ rwrites' = [rwrites EXCEPT ![p] = sofar + 1]
         /\ rresult' = [rresult EXCEPT ![p] = Value(None)]

\* ModifyWrite of a modify called with validate=False.
ModifyWrite_noValidate(p, data) ==
    /\ JsonWrite_noValidate(p, data, rwrites[p])
    /\ rpc' = [rpc EXCEPT ![p] = "idle"]
    /\ rdata' = [rdata EXCEPT ![p] = EmptyConfig]
    /\ UNCHANGED rop

\* JsonFile.modify after its yield: write(data, validate=True).
ModifyWrite(p, data) ==
    /\ JsonWrite(p, data, rwrites[p])
    /\ rpc' = [rpc EXCEPT ![p] = "idle"]
    /\ rdata' = [rdata EXCEPT ![p] = EmptyConfig]
    /\ UNCHANGED rop

\* Config.create(n, a).
Create(p, n, a) ==
    /\ Called(p, "create", n, a)
    /\ JsonWrite(p, [vms |-> <<VM(n, a)>>, current |-> n], 0)
    /\ UNCHANGED <<rpc, rdata>>
    /\ UNCHANGED <<lifeVars, gsVars>>

\* Config.add_or_update_vm(n, a): the read of modify.  Not called with a
\* new name on a list of MaxVms entries.
AddOrUpdateRead(p, n, a) ==
    /\ CanAdd(file, n)
    /\ ModifyRead(p, "add_or_update_vm", n, a, "add_or_update_body")
    /\ UNCHANGED <<lifeVars, gsVars>>

\* CliAddRead without the except branch: add_or_update_vm only.
CliAddRead_noFallback(p, n, a) ==
    /\ CanAdd(file, n)
    /\ ModifyRead(p, "_add", n, a, "add_or_update_body")
    /\ UNCHANGED <<lifeVars, gsVars>>

\* _add of the command line: add_or_update_vm(n, a), and create(n, a) when
\* that raises JsonFileNotFoundError.  This is the read of modify.
CliAddRead(p, n, a) ==
    /\ CanAdd(file, n)
    /\ IF read(file, TRUE).exc = "JsonFileNotFoundError"
       THEN /\ Called(p, "_add", n, a)
            /\ rwrites' = [rwrites EXCEPT ![p] = 0]
            /\ rresult' = [rresult EXCEPT ![p] = Running]
            /\ rpc' = [rpc EXCEPT ![p] = "add_create"]
            /\ UNCHANGED <<rdata, file, dirExists>>
       ELSE ModifyRead(p, "_add", n, a, "add_or_update_body")
    /\ UNCHANGED <<lifeVars, gsVars>>

\* AddOrUpdateWrite applying the body to what the file holds at the time of
\* the write, as a modify holding a lock on the file would.
AddOrUpdateWrite_onFileNow(p) ==
    /\ rpc[p] = "add_or_update_body"
    /\ ModifyWrite(p, AddOrUpdateBody(IF read(file, TRUE).exc = "none"
                                      THEN read(file, TRUE).value
                                      ELSE rdata[p],
                                      rop[p].name, rop[p].address))
    /\ UNCHANGED <<lifeVars, gsVars>>

\* add_or_update_vm: the body of the with block and the write of modify.
AddOrUpdateWrite(p) ==
    /\ rpc[p] = "add_or_update_body"
    /\ ModifyWrite(p, AddOrUpdateBody(rdata[p], rop[p].name, rop[p].address))
    /\ UNCHANGED <<lifeVars, gsVars>>

\* _add: the create(n, a) of its except branch.
CliAddCreate(p) ==
    /\ rpc[p] = "add_create"
    /\ JsonWrite(p, [vms |-> <<VM(rop[p].name, rop[p].address)>>, current |-> rop[p].name], 0)
    /\ rpc' = [rpc EXCEPT ![p] = "idle"]
    /\ UNCHANGED <<rop, rdata>>
    /\ UNCHANGED <<lifeVars, gsVars>>

\* Config.remove_vm(n): the read of modify.
RemoveRead(p, n) ==
    /\ ModifyRead(p, "remove_vm", n, None, "remove_body")
    /\ UNCHANGED <<lifeVars, gsVars>>

\* remove_vm: the body of the with block and the write of modify.
RemoveWrite(p) ==
    /\ rpc[p] = "remove_body"
    /\ ModifyWrite(p, RemoveBody(rdata[p], rop[p].name))
    /\ UNCHANGED <<lifeVars, gsVars>>

\* Config.set_current_vm(n): the read of modify.
SelectRead(p, n) ==
    /\ ModifyRead(p, "set_current_vm", n, None, "select_body")
    /\ UNCHANGED <<lifeVars, gsVars>>

\* set_current_vm: the body of the with block and the write of modify.
SelectWrite(p) ==
    /\ rpc[p] = "select_body"
    /\ ModifyWrite(p, SelectBody(rdata[p], rop[p].name))
    /\ UNCHANGED <<lifeVars, gsVars>>

\* A method that only reads, and what it returns or raises.
ReadOnly(p, m, n, result) ==
    /\ Called(p, m, n, None)
    /\ rresult' = [rresult EXCEPT ![p] = result]
    /\ rwrites' = [rwrites EXCEPT ![p] = 0]
    /\ UNCHANGED <<file, dirExists, rpc, rdata>>
    /\ UNCHANGED <<lifeVars, gsVars>>

\* Config.get_vm(n).
GetVm(p, n) == ReadOnly(p, "get_vm", n, get_vm(file, n))

\* Config.get_vms().
GetVms(p) ==
    ReadOnly(p, "get_vms", None,
             IF read(file, TRUE).exc # "none"
             THEN read(file, TRUE)
             ELSE Value(read(file, TRUE).value.vms))

\* Config.get_current_vm().
GetCurrentVm(p) == ReadOnly(p, "get_current_vm", None, get_current_vm(file))

InitRegistry ==
    /\ LifeInit
    /\ GsIdle
    /\ file \in RegFiles
    /\ dirExists \in BOOLEAN
    /\ RegIdle

\* The steps of process p.
ProcNext(p) ==
    \/ \E n \in RegNames, a \in RegAddrs : Create(p, n, a)
    \/ \E n \in RegNames, a \in RegAddrs : AddOrUpdateRead(p, n, a)
    \/ \E n \in RegNames, a \in RegAddrs : CliAddRead(p, n, a)
    \/ AddOrUpdateWrite(p)
    \/ CliAddCreate(p)
    \/ \E n \in RegNames : RemoveRead(p, n)
    \/ RemoveWrite(p)
    \/ \E n \in RegNames : SelectRead(p, n)
    \/ SelectWrite(p)
    \/ \E n \in RegNames : GetVm(p, n)
    \/ GetVms(p)
    \/ GetCurrentVm(p)

\* One process: the methods run one after the other.
NextRegistry == ProcNext(1)

SpecRegistry == InitRegistry /\ [][NextRegistry]_vars

(***************************************************************************)
(* Properties of the registry.                                             *)
(***************************************************************************)
\* The names of the entries of a vms list.
NamesOf(vms) == {vms[i].name : i \in 1..Len(vms)}

\* The file holds a registry the validator accepts.
ValidFile(f) ==
    /\ f # NoFile
    /\ f[1].json
    /\ DOMAIN f[1].obj = {"vms", "current"}
    /\ f[1].obj.current \in NamesOf(f[1].obj.vms)

\* p has completed a call of method m on a file holding a valid registry.
Completed(p, m) ==
    /\ rpc[p] = "idle"
    /\ rop[p].method = m
    /\ ValidFile(rop[p].pre)

\* C9, as the specification states it: remove(name) of the entry current
\* points at, and select(name) of a name that is not in vms, both complete
\* and persist the mutated registry (the entry removed with current
\* untouched, respectively current = name), which fails validation only on
\* the next read.
C9_PersistsInvalidRegistry ==
    \A p \in Procs :
        /\ (Completed(p, "remove_vm") /\ rop[p].name = rop[p].pre[1].obj.current) =>
              /\ rresult[p].exc = "none"
              /\ file = FileOf([vms |-> SelectSeq(rop[p].pre[1].obj.vms,
                                                  LAMBDA v : v.name # rop[p].name),
                                current |-> rop[p].pre[1].obj.current])
        /\ (Completed(p, "set_current_vm") /\ rop[p].name \notin NamesOf(rop[p].pre[1].obj.vms)) =>
              /\ rresult[p].exc = "none"
              /\ file = FileOf([vms |-> rop[p].pre[1].obj.vms, current |-> rop[p].name])

\* C9, amended: remove(name) of the entry current points at, and
\* select(name) of a name that is not in vms, both fail with InvalidDataError
\* (current does not exist in config) when modify validates the data it is
\* about to write; nothing is written, and the file stays as it was.
C9_RejectedAtWrite ==
    \A p \in Procs :
        /\ (Completed(p, "remove_vm") /\ rop[p].name = rop[p].pre[1].obj.current) =>
              /\ rresult[p].exc = "InvalidDataError"
              /\ rresult[p].args = <<CurrentNotInConfig, rop[p].pre[1].obj.current>>
              /\ rwrites[p] = 0
              /\ file = rop[p].pre
        /\ (Completed(p, "set_current_vm") /\ rop[p].name \notin NamesOf(rop[p].pre[1].obj.vms)) =>
              /\ rresult[p].exc = "InvalidDataError"
              /\ rresult[p].args = <<CurrentNotInConfig, rop[p].name>>
              /\ rwrites[p] = 0
              /\ file = rop[p].pre

\* remove_vm of the current entry of a registry of two has been rejected.
C9_Witness ==
    /\ rpc[1] = "idle"
    /\ rop[1].method = "remove_vm"
    /\ rop[1].name = S_web
    /\ rop[1].pre = FileOf([vms |-> <<VM(S_dev, S_addr1), VM(S_web, S_addr2)>>,
                            current |-> S_web])
    /\ rresult[1].exc = "InvalidDataError"
    /\ file = rop[1].pre

\* C10: create(name, address) fails, leaving the persisted registry
\* unchanged, whenever a registry file already exists; when none exists it
\* persists a registry with exactly the entry {name, address} and
\* current = name.
C10_CreateRefusesExisting ==
    \A p \in Procs :
        (rpc[p] = "idle" /\ rop[p].method = "create") =>
            IF rop[p].pre # NoFile
            THEN /\ rresult[p].exc # "none"
                 /\ file = rop[p].pre
            ELSE /\ rresult[p].exc = "none"
                 /\ file = FileOf([vms |-> <<VM(rop[p].name, rop[p].address)>>,
                                   current |-> rop[p].name])

(***************************************************************************)
(* The registry over every file of bounded size, and JsonFile.modify       *)
(* around a with block that raises.                                        *)
(***************************************************************************)
\* The entries a vms list may hold.
RegEntries == {VM(n, a) : n \in RegNames, a \in RegAddrs}

\* The vms lists of at most MaxVms entries, duplicates of a name included.
RegVmLists == UNION {[1..k -> RegEntries] : k \in 0..MaxVms}

\* The JSON objects a config file may hold: with both keys, or lacking one.
RegConfigs ==
    {[vms |-> l, current |-> c] : l \in RegVmLists, c \in RegNames}
        \cup {[vms |-> l] : l \in RegVmLists}
        \cup {[current |-> c] : c \in RegNames}

\* Every file of that size: none, one that is not JSON, or a JSON object.
AnyFiles == {NoFile, GarbageFile} \cup {FileOf(c) : c \in RegConfigs}

\* JsonFile.modify used directly, around a with block that raises: the read.
ModifyRaisingRead(p) ==
    /\ ModifyRead(p, "modify", None, None, "raising_body")
    /\ UNCHANGED <<lifeVars, gsVars>>

\* The with block raises: the exception is thrown into modify at its yield,
\* which does not catch it, so write is not reached.
ModifyRaisingBody(p) ==
    /\ rpc[p] = "raising_body"
    /\ rresult' = [rresult EXCEPT ![p] = Raise("Exception", <<>>)]
    /\ rpc' = [rpc EXCEPT ![p] = "idle"]
    /\ rdata' = [rdata EXCEPT ![p] = EmptyConfig]
    /\ UNCHANGED <<rop, rwrites, file, dirExists>>
    /\ UNCHANGED <<lifeVars, gsVars>>

\* A config file is in a directory: only without a file may the directory
\* be missing.
InitAnyRegistry ==
    /\ LifeInit
    /\ GsIdle
    /\ file \in AnyFiles
    /\ dirExists \in (IF file = NoFile THEN BOOLEAN ELSE {TRUE})
    /\ RegIdle

\* One process calling the methods of Config and JsonFile.modify.
NextAnyRegistry ==
    \/ ProcNext(1)
    \/ ModifyRaisingRead(1)
    \/ ModifyRaisingBody(1)

SpecAnyRegistry == InitAnyRegistry /\ [][NextAnyRegistry]_vars

(***************************************************************************)
(* Properties of the methods of Config, over every file.                   *)
(***************************************************************************)
\* The index of the first entry of vms named n, 0 if there is none.
FirstNamed(vms, n) ==
    IF n \in NamesOf(vms)
    THEN CHOOSE i \in 1..Len(vms) :
            /\ vms[i].name = n
            /\ \A j \in 1..(i - 1) : vms[j].name # n
    ELSE 0

\* C11: add_or_update_vm(name, address) on a valid registry succeeds, and
\* afterwards the entry get_vm(name) finds has the given address, current is
\* what it was, and so is every other entry and the order: a new name is
\* appended at the end, an existing one is updated in place.  Called on a
\* registry that already holds that entry, as a second identical call is, it
\* leaves the file identical.
C11_AddOrUpdate ==
    \A p \in Procs :
        Completed(p, "add_or_update_vm") =>
            LET before == rop[p].pre[1].obj
                n == rop[p].name
                a == rop[p].address
                k == FirstNamed(before.vms, n)
            IN  /\ rresult[p].exc = "none"
                /\ file # NoFile
                /\ file[1].json
                /\ DOMAIN file[1].obj = DOMAIN before
                /\ file[1].obj.current = before.current
                /\ file[1].obj.vms[FirstNamed(file[1].obj.vms, n)] = VM(n, a)
                /\ IF k = 0
                   THEN /\ Len(file[1].obj.vms) = Len(before.vms) + 1
                        /\ FirstNamed(file[1].obj.vms, n) = Len(before.vms) + 1
                   ELSE /\ Len(file[1].obj.vms) = Len(before.vms)
                        /\ FirstNamed(file[1].obj.vms, n) = k
                /\ \A i \in 1..Len(before.vms) :
                      i # k => file[1].obj.vms[i] = before.vms[i]
                /\ (k # 0 /\ before.vms[k] = VM(n, a)) => file = rop[p].pre

\* add_or_update_vm of a new name has appended it to a registry of one
\* entry.
C11_Witness ==
    /\ rpc[1] = "idle"
    /\ rop[1].method = "add_or_update_vm"
    /\ rop[1].name = S_web
    /\ rop[1].address = S_addr2
    /\ rop[1].pre = FileOf([vms |-> <<VM(S_dev, S_addr1)>>, current |-> S_dev])
    /\ rresult[1].exc = "none"
    /\ rwrites[1] = 1
    /\ file = FileOf([vms |-> <<VM(S_dev, S_addr1), VM(S_web, S_addr2)>>,
                      current |-> S_dev])

\* C12: remove_vm(name) of a name that is not in the vms list of a valid
\* registry returns normally and leaves the persisted registry (the
\* entries, their order and current) exactly what it was.
C12_RemoveAbsentName ==
    \A p \in Procs :
        (Completed(p, "remove_vm") /\ rop[p].name \notin NamesOf(rop[p].pre[1].obj.vms)) =>
            /\ rresult[p] = Value(None)
            /\ file = rop[p].pre

\* remove_vm of a name the registry of one entry does not hold has returned.
C12_Witness ==
    /\ rpc[1] = "idle"
    /\ rop[1].method = "remove_vm"
    /\ rop[1].name = S_web
    /\ rop[1].pre = FileOf([vms |-> <<VM(S_dev, S_addr1)>>, current |-> S_dev])
    /\ rresult[1].exc = "none"
    /\ rwrites[1] = 1
    /\ file = rop[1].pre

\* The data remove_vm and set_current_vm of p hand to write, computed from
\* the registry the method was called on.
RemovedFrom(p) ==
    [vms |-> SelectSeq(rop[p].pre[1].obj.vms, LAMBDA v : v.name # rop[p].name),
     current |-> rop[p].pre[1].obj.current]

SelectedIn(p) == [vms |-> rop[p].pre[1].obj.vms, current |-> rop[p].name]

\* The rule with the current pointer checked against a non-empty list only.
AcceptsEmptyList(c) ==
    /\ "vms" \in DOMAIN c
    /\ "current" \in DOMAIN c
    /\ Len(c.vms) > 0 => c.current \in NamesOf(c.vms)

\* The rule with the current pointer checked against every list.
AcceptsCurrentEntry(c) ==
    /\ "vms" \in DOMAIN c
    /\ "current" \in DOMAIN c
    /\ c.current \in NamesOf(c.vms)

\* p has completed get_vms on a file holding a JSON object.
ReadJson(p) ==
    /\ rpc[p] = "idle"
    /\ rop[p].method = "get_vms"
    /\ rop[p].pre # NoFile
    /\ rop[p].pre[1].json

\* C13, as the specification states it: the validator accepts a registry if
\* and only if it has a vms list and a current field that names an entry when
\* the list is non-empty, a registry with an empty vms list being accepted;
\* read (here of get_vms) and write (here of remove_vm and set_current_vm)
\* apply exactly this rule.
C13_EmptyListAccepted ==
    \A p \in Procs :
        /\ ReadJson(p) =>
              (rresult[p].exc = "none" <=> AcceptsEmptyList(rop[p].pre[1].obj))
        /\ Completed(p, "remove_vm") =>
              (rresult[p].exc = "none" <=> AcceptsEmptyList(RemovedFrom(p)))
        /\ Completed(p, "set_current_vm") =>
              (rresult[p].exc = "none" <=> AcceptsEmptyList(SelectedIn(p)))

\* C13, amended: the validator accepts a registry if and only if it has a
\* vms list and a current field that names an entry of the list, so a
\* registry with an empty vms list is rejected; read and write apply exactly
\* this rule, raising InvalidDataError otherwise, write without writing.
C13_CurrentEntryRequired ==
    \A p \in Procs :
        /\ ReadJson(p) =>
              IF AcceptsCurrentEntry(rop[p].pre[1].obj)
              THEN rresult[p] = Value(rop[p].pre[1].obj.vms)
              ELSE rresult[p].exc = "InvalidDataError"
        /\ Completed(p, "remove_vm") =>
              IF AcceptsCurrentEntry(RemovedFrom(p))
              THEN rresult[p].exc = "none" /\ rwrites[p] = 1
              ELSE rresult[p].exc = "InvalidDataError" /\ rwrites[p] = 0
        /\ Completed(p, "set_current_vm") =>
              IF AcceptsCurrentEntry(SelectedIn(p))
              THEN rresult[p].exc = "none" /\ rwrites[p] = 1
              ELSE rresult[p].exc = "InvalidDataError" /\ rwrites[p] = 0

\* get_vms has read a file whose vms list is empty and has been refused.
C13_Witness ==
    /\ rpc[1] = "idle"
    /\ rop[1].method = "get_vms"
    /\ rop[1].pre = FileOf([vms |-> <<>>, current |-> S_dev])
    /\ rresult[1] = Raise("InvalidDataError", <<CurrentNotInConfig, S_dev>>)

(***************************************************************************)
(* The polls and sleeps of _wait_for_shutdown.                             *)
(***************************************************************************)
\* Between two consecutive polls there is exactly one sleep: no sleep before
\* the first poll, and one more sleep than polls only while the poll that
\* follows a sleep is still to be made.
OneSleepBetweenPolls ==
    calls.wait_sleep =
        IF pc = "wait_poll"
        THEN calls.wait_get_state
        ELSE IF calls.wait_get_state = 0 THEN 0 ELSE calls.wait_get_state - 1

\* C15, as the specification states it: in one stop call the wait loop calls
\* get_state at most the maximum attempt count (20) times before it fails
\* with ShutdownFailure, and sleeps exactly once between two consecutive
\* polls.
C15_AtMostTriesPolls ==
    /\ calls.wait_get_state <= WaitTries
    /\ OneSleepBetweenPolls

\* C15, amended: in one stop call the wait loop calls get_state at most the
\* maximum attempt count plus one (21) times, once before the loop and once
\* in each of its at most 20 iterations, before it fails with
\* ShutdownFailure; it sleeps the fixed interval exactly once between two
\* consecutive polls, so a stop that fails has polled 21 times and slept 20
\* times.
C15_AtMostTriesPlusOnePolls ==
    /\ calls.wait_get_state <= WaitTries + 1
    /\ OneSleepBetweenPolls
    /\ (op = "stop" /\ pc = "done" /\ outcome = "ShutdownFailure") =>
          /\ calls.wait_get_state = WaitTries + 1
          /\ calls.wait_sleep = WaitTries
          /\ calls.slept_ms = WaitTries * WaitRetryIntervalMs

\* stop has failed after 21 polls and 20 sleeps.
C15_Witness ==
    /\ op = "stop"
    /\ pc = "done"
    /\ outcome = "ShutdownFailure"
    /\ calls.wait_get_state = WaitTries + 1
    /\ calls.wait_sleep = WaitTries

\* p has completed get_current_vm on a file holding a JSON object with both
\* keys whose current names no entry of vms.
ReadDanglingCurrent(p) ==
    /\ rpc[p] = "idle"
    /\ rop[p].method = "get_current_vm"
    /\ rop[p].pre # NoFile
    /\ rop[p].pre[1].json
    /\ DOMAIN rop[p].pre[1].obj = {"vms", "current"}
    /\ rop[p].pre[1].obj.current \notin NamesOf(rop[p].pre[1].obj.vms)

NeedRegistry ==
    {"add_or_update_vm", "remove_vm", "set_current_vm", "get_vm", "get_vms",
     "get_current_vm"}

\* On an absent registry the methods other than _add and create raise
\* JsonFileNotFoundError without writing, and _add succeeds with one write.
C17_OnAbsent ==
    \A p \in Procs :
        (rpc[p] = "idle" /\ rop[p].pre = NoFile) =>
            /\ rop[p].method \in NeedRegistry =>
                  /\ rresult[p] = Raise("JsonFileNotFoundError", <<>>)
                  /\ rwrites[p] = 0
            /\ rop[p].method = "_add" =>
                  /\ rresult[p].exc = "none"
                  /\ rwrites[p] = 1

\* The file appears only in the create step of _add (or of a direct call of
\* create), as the registry of that one entry; without that step neither
\* the file nor its directory appears; and a file never disappears.
C17_Step ==
    /\ (file = NoFile /\ file' # NoFile) =>
          \E p \in Procs :
              /\ rop'[p].method \in {"_add", "create"}
              /\ rop'[p].pre = NoFile
              /\ rpc'[p] = "idle"
              /\ rresult'[p].exc = "none"
              /\ file' = FileOf([vms |-> <<VM(rop'[p].name, rop'[p].address)>>,
                                 current |-> rop'[p].name])
    /\ (file = NoFile /\ file' = NoFile) => dirExists' = dirExists
    /\ file # NoFile => file' # NoFile

\* C17: the registry goes from absent to present only through add
\* (add_or_update_vm falling back to create on JsonFileNotFoundError), which
\* yields the registry of that single entry with current = name; remove,
\* select, get, list and get-current on an absent registry fail with
\* JsonFileNotFoundError and create nothing; once present, the registry
\* never becomes absent again.
C17_RegistryLifecycle == [](C17_OnAbsent) /\ [][C17_Step]_vars

\* _add on an absent registry has created the registry of one entry.
C17_Witness ==
    /\ rpc[1] = "idle"
    /\ rop[1].method = "_add"
    /\ rop[1].name = S_web
    /\ rop[1].address = S_addr2
    /\ rop[1].pre = NoFile
    /\ rresult[1].exc = "none"
    /\ file = FileOf([vms |-> <<VM(S_web, S_addr2)>>, current |-> S_web])

\* Process p takes the step: something of its call changes.
Acting(p) == <<rpc[p], rop[p], rresult[p], rwrites[p]>>' # <<rpc[p], rop[p], rresult[p], rwrites[p]>>

\* A call that has ended with an exception has written nothing.
C19_FailedWroteNothing ==
    \A p \in Procs :
        (rpc[p] = "idle" /\ rresult[p].exc # "none") => rwrites[p] = 0

\* A step in which a call ends with an exception (the validation of write
\* rejecting the data, the read of modify failing, or the with block
\* raising), and the read step of modify, leave the file, or its absence,
\* and the directory as they are.
C19_Step ==
    \A p \in Procs :
        (Acting(p) /\ rresult'[p].exc # "none") =>
            /\ file' = file
            /\ dirExists' = dirExists

\* C19: a failed mutation leaves the persisted state unchanged: when the
\* validation of write rejects the data it raises InvalidDataError before
\* any directory is made or the file is opened; when the read of modify
\* fails or the with block inside it raises, no write happens; in each case
\* the file, or its absence, is exactly as before the call.
C19_FailedMutationChangesNothing ==
    [](C19_FailedWroteNothing) /\ [][C19_Step]_vars

\* The write of set_current_vm has been rejected by the validation, the
\* name being none of the registry: the file is as it was.
C19_Witness ==
    /\ rpc[1] = "idle"
    /\ rop[1].method = "set_current_vm"
    /\ rop[1].name = S_web
    /\ rop[1].pre = FileOf([vms |-> <<VM(S_dev, S_addr1)>>, current |-> S_dev])
    /\ rresult[1].exc = "InvalidDataError"
    /\ rwrites[1] = 0
    /\ dirExists
    /\ file = rop[1].pre

(***************************************************************************)
(* Two processes calling the mutating methods of Config on one file, each  *)
(* read and each write of the file being one step.                         *)
(***************************************************************************)
\* The vms lists in which no two entries have the same name.
DistinctLists ==
    {l \in RegVmLists : \A i, j \in DOMAIN l : l[i].name = l[j].name => i = j}

\* No file, or a registry without duplicate names that passes validation,
\* here with one address for all its entries.
StartFiles ==
    {NoFile} \cup UNION {{FileOf([vms |-> l, current |-> l[i].name]) : i \in DOMAIN l} :
                            l \in {d \in DistinctLists :
                                      \A i \in DOMAIN d : d[i].address = S_addr1}}

InitConcurrent ==
    /\ LifeInit
    /\ GsIdle
    /\ file \in StartFiles
    /\ dirExists \in (IF file = NoFile THEN BOOLEAN ELSE {TRUE})
    /\ RegIdle

\* The address process p gives its entries: each process has its own, so
\* that the file shows whose write it holds.
AddrOf(p) == IF p = 1 THEN S_addr1 ELSE S_addr2

\* The steps of the mutating methods of process p.
MutatorNext(p) ==
    \/ \E n \in RegNames : Create(p, n, AddrOf(p))
    \/ \E n \in RegNames : AddOrUpdateRead(p, n, AddrOf(p))
    \/ \E n \in RegNames : CliAddRead(p, n, AddrOf(p))
    \/ AddOrUpdateWrite(p)
    \/ CliAddCreate(p)
    \/ \E n \in RegNames : RemoveRead(p, n)
    \/ RemoveWrite(p)
    \/ \E n \in RegNames : SelectRead(p, n)
    \/ SelectWrite(p)

\* The processes are not synchronised: any of them takes the next step.
NextConcurrent == \E p \in Procs : MutatorNext(p)

SpecConcurrent == InitConcurrent /\ [][NextConcurrent]_vars

(***************************************************************************)
(* Properties of concurrent calls.                                         *)
(***************************************************************************)
\* The data add_or_update_vm of p hands to write, computed from the registry
\* the method was called on.
AddedTo(p) ==
    LET before == rop[p].pre[1].obj
        k == FirstNamed(before.vms, rop[p].name)
        entry == VM(rop[p].name, rop[p].address)
    IN  [vms |-> IF k = 0
                 THEN before.vms \o <<entry>>
                 ELSE [i \in 1..Len(before.vms) |-> IF i = k THEN entry ELSE before.vms[i]],
         current |-> before.current]

\* The data the method of p hands to write, p being in its with block.
DataOf(p) ==
    CASE rpc[p] = "add_or_update_body" -> AddedTo(p)
      [] rpc[p] = "remove_body" -> RemovedFrom(p)
      [] rpc[p] = "select_body" -> SelectedIn(p)

\* The write step of a modify: what is written, and whether the call
\* succeeds, depends on what p has read and on nothing another process has
\* written since; an accepted write replaces whatever the file holds.
C14_WriteStep ==
    \A p \in Procs :
        (rpc[p] \in {"add_or_update_body", "remove_body", "select_body"} /\ rpc'[p] = "idle") =>
            IF AcceptsCurrentEntry(DataOf(p))
            THEN /\ rresult'[p].exc = "none"
                 /\ file' = FileOf(DataOf(p))
            ELSE /\ rresult'[p].exc = "InvalidDataError"
                 /\ file' = file

\* No process is ever held up by the other: in its with block it can write,
\* and otherwise it can start a method.
C14_NeverBlocked == \A p \in Procs : ENABLED MutatorNext(p)

\* C14: modify is a read followed by a write with no lock: each write
\* persists what its own process computed from its own read, so when both
\* processes read before either writes both calls succeed and the file
\* holds the last writer's result only, the first writer's change being
\* lost; no interleaving blocks a process or makes it fail because of the
\* other.
C14_LastWriteWins == [](C14_NeverBlocked) /\ [][C14_WriteStep]_vars

\* Both processes have read the registry of one entry before either wrote;
\* process 1 has added web, process 2 has then updated dev: both calls have
\* succeeded and the file holds the result of process 2, without web.
C14_Witness ==
    /\ rpc = <<"idle", "idle">>
    /\ rop[1].method = "add_or_update_vm"
    /\ rop[2].method = "add_or_update_vm"
    /\ rop[1].name = S_web
    /\ rop[2].name = S_dev
    /\ rop[1].pre = FileOf([vms |-> <<VM(S_dev, S_addr1)>>, current |-> S_dev])
    /\ rop[2].pre = rop[1].pre
    /\ rresult[1].exc = "none"
    /\ rresult[2].exc = "none"
    /\ rwrites = <<1, 1>>
    /\ file = FileOf([vms |-> <<VM(S_dev, S_addr2)>>, current |-> S_dev])

\* C18: name uniqueness is preserved although _validate does not check it:
\* starting from no file or from a registry without duplicate names, after
\* any sequence of create, add_or_update_vm, remove_vm and set_current_vm
\* calls, interleaved ones of two processes included, the persisted vms list
\* never has two entries of the same name, and current names exactly one
\* entry.
C18_UniqueNames ==
    file # NoFile =>
        /\ file[1].json
        /\ DOMAIN file[1].obj = {"vms", "current"}
        /\ \A i, j \in 1..Len(file[1].obj.vms) :
              file[1].obj.vms[i].name = file[1].obj.vms[j].name => i = j
        /\ Cardinality({i \in 1..Len(file[1].obj.vms) :
                           file[1].obj.vms[i].name = file[1].obj.current}) = 1

\* Both processes have read the registry of one entry and added the same new
\* name, one write after the other: the name is in the file once.
C18_Witness ==
    /\ rpc = <<"idle", "idle">>
    /\ rop[1].method = "add_or_update_vm"
    /\ rop[2].method = "add_or_update_vm"
    /\ rop[1].name = S_web
    /\ rop[2].name = S_web
    /\ rop[1].pre = FileOf([vms |-> <<VM(S_dev, S_addr1)>>, current |-> S_dev])
    /\ rop[2].pre = rop[1].pre
    /\ rwrites = <<1, 1>>
    /\ file = FileOf([vms |-> <<VM(S_dev, S_addr1), VM(S_web, S_addr2)>>,
                      current |-> S_dev])

\* C20: each read and each write of the file being one step, after any
\* sequence of create, add_or_update_vm, remove_vm and set_current_vm calls
\* of concurrent processes, successful or failed, the persisted registry, if
\* there is one, passes validation: vms is not empty and current names an
\* entry of vms.  So no call removes the entry that is current in the
\* registry it read, and none empties the registry.
C20_PersistedIsValid ==
    /\ file # NoFile =>
          /\ file[1].json
          /\ _validate(file[1].obj) = Value(None)
          /\ Len(file[1].obj.vms) > 0
          /\ file[1].obj.current \in NamesOf(file[1].obj.vms)
    /\ \A p \in Procs :
          (Completed(p, "remove_vm") /\ (rop[p].name = rop[p].pre[1].obj.current
                                           \/ RemovedFrom(p).vms = <<>>)) =>
              /\ rresult[p].exc = "InvalidDataError"
              /\ rwrites[p] = 0

\* Process 1 has removed the entry that is not current from a registry of
\* two; process 2 has then been refused the removal of the last entry.
C20_Witness ==
    /\ rpc = <<"idle", "idle">>
    /\ rop[1].method = "remove_vm"
    /\ rop[1].name = S_dev
    /\ rop[1].pre = FileOf([vms |-> <<VM(S_dev, S_addr1), VM(S_web, S_addr1)>>,
                            current |-> S_web])
    /\ rresult[1].exc = "none"
    /\ rop[2].method = "remove_vm"
    /\ rop[2].name = S_web
    /\ rop[2].pre = FileOf([vms |-> <<VM(S_web, S_addr1)>>, current |-> S_web])
    /\ rresult[2].exc = "InvalidDataError"
    /\ file = rop[2].pre

(***************************************************************************)
(* The order of the calls of reboot.                                       *)
(***************************************************************************)
\* C21: in reboot (stop, then start) startvm is issued only after the wait
\* loop of the same call has polled the state poweroff, and only if the one
\* state query made after that does not return running; when stop fails
\* (the acpipowerbutton call fails, or the wait ends in ShutdownFailure)
\* reboot fails with that error without any further state query and without
\* issuing startvm.
C21_RebootOrder ==
    op = "reboot" =>
        /\ (pc \in {"start_check", "start_poweron"} \/ calls.startvm > 0
              \/ calls.get_state > 1 + calls.wait_get_state) =>
              /\ state = S_poweroff
              /\ calls.wait_get_state >= 1
              /\ "shut down" \in printed
              /\ calls.acpipowerbutton_failed = 0
        /\ calls.get_state <= 2 + calls.wait_get_state
        /\ (pc = "start_poweron" \/ calls.startvm > 0) =>
              /\ calls.get_state = 2 + calls.wait_get_state
              /\ get_state(vmName, answer) # Value(S_running)
              /\ calls.startvm <= 1
        /\ (pc = "done" /\ calls.get_state = 2 + calls.wait_get_state
              /\ get_state(vmName, answer) = Value(S_running)) =>
              /\ calls.startvm = 0
              /\ outcome = "ok"
        /\ calls.acpipowerbutton_failed > 0 =>
              /\ pc = "done"
              /\ outcome = "CalledProcessError"
              /\ calls.get_state = 1
              /\ calls.startvm = 0
        /\ (pc = "done" /\ outcome = "ShutdownFailure") =>
              /\ errArgs = <<vmName>>
              /\ state # S_poweroff
              /\ calls.get_state = 1 + calls.wait_get_state
              /\ calls.startvm = 0

\* reboot of a running VM has requested the shutdown, seen poweroff at the
\* second poll, queried the state once more and issued startvm.
C21_Witness ==
    /\ op = "reboot"
    /\ pc = "done"
    /\ outcome = "ok"
    /\ wasRunning = "yes"
    /\ calls.acpipowerbutton = 1
    /\ calls.wait_get_state = 2
    /\ calls.get_state = 4
    /\ calls.startvm = 1
    /\ state = S_poweroff

====
